---- MODULE Spec2Model ----
(***************************************************************************)
(* A model of the Tetonor programs: the backtracking solver (TetonorSolver,*)
(* the class with findGridAssignment) together with a caller that invokes  *)
(* solve twice on the same puzzle; the puzzle generator (TetonorGenerator) *)
(* followed by solve on the puzzle it made; and the answer validator       *)
(* (TetonorValidator).  Grid and candidate indices are 0-based, as in the  *)
(* source; TLA+ sequences are 1-based, so cell k of an array a is a[k + 1].*)
(*                                                                         *)
(* A JavaScript value that may be null is modelled as a sequence: <<>> is  *)
(* null, <<v>> is the value v.                                             *)
(***************************************************************************)
EXTENDS Integers, Sequences, FiniteSets, TLC

VARIABLES
    gridNumbers,   \* argument of solve: the grid, a sequence of integers
    stripValues,   \* argument of solve: the strip, a sequence of nullable integers
    maxAttempts,   \* argument of solve in the current call
    pc,            \* where the caller, solve, generate or validate is
    allPairs,      \* const allPairs of solve
    tested,        \* let tested of findOptimalCombination
    solution,      \* let solution of findOptimalCombination (nullable)
    stack,         \* the activation records of backtrack, innermost last
    currentCombo,  \* the one array passed down as currentCombo (candidate indices)
    result,        \* what solve returned (nullable)
    aborted,       \* history: some backtrack call of this solve hit tested > maxAttempts
    first,         \* history: the caller's record of its first call (nullable)
    variant,       \* which TetonorGenerator runs: "static" (generator.js) or "browser"
    difficulty,    \* argument of generate
    rng,           \* the random source of generate: its next value and its step
    generatedPairs, \* const pairs of generatePairs
    usedNumbers,   \* const usedNumbers of generatePairs (a Set of keys)
    attempts,      \* let attempts of generatePairs
    puzzle,        \* what generate returned; the argument of validate (nullable)
    userInputs,    \* argument of validate (nullable)
    validation,    \* what validate returned (nullable)
    assigned       \* what findGridAssignment returned when called on its own

\* the solver's variables other than pc
solverLocals == <<gridNumbers, stripValues, maxAttempts, allPairs, tested, solution,
                  stack, currentCombo, result, aborted, first>>

solverVars == <<pc, solverLocals>>

generatorVars ==
    <<variant, difficulty, rng, generatedPairs, usedNumbers, attempts, puzzle>>

validatorVars == <<userInputs, validation>>

vars == <<solverVars, generatorVars, validatorVars, assigned>>

----------------------------------------------------------------------------
(* Bounds of the model *)

\* budgets passed to solve range over 0..MaxBudget
MaxBudget == 2

\* the free pair of a generated grid is (a, a) or (a, a + 1), within 1..MaxNum
MaxNum == 4

\* the short grids given to findConsistentPairs have at most MaxLen cells
MaxLen == 3

\* ... holding values in -1..MaxVal
MaxVal == 6

----------------------------------------------------------------------------
(* Program constants *)

\* currentCombo.length === 8
ComboSize == 8

\* Array(16).fill(null)
GridCells == 16

None == <<>>

Some(x) == <<x>>

----------------------------------------------------------------------------
(* Small helpers for JavaScript arrays *)

ButLast(s) == SubSeq(s, 1, Len(s) - 1)

RECURSIVE InsertSorted(_, _)
InsertSorted(s, x) ==
    IF s = <<>> THEN <<x>>
    ELSE IF x < Head(s) THEN <<x>> \o s
    ELSE <<Head(s)>> \o InsertSorted(Tail(s), x)

RECURSIVE SortAscending(_)
\* numbers.sort((a, b) => a - b)
SortAscending(s) ==
    IF s = <<>> THEN <<>> ELSE InsertSorted(SortAscending(Tail(s)), Head(s))

DigitChars == <<"0", "1", "2", "3", "4", "5", "6", "7", "8", "9">>

RECURSIVE Digits(_)
\* the decimal string of a non-negative integer, as a sequence of characters
Digits(n) ==
    IF n < 10 THEN <<DigitChars[n + 1]>>
    ELSE Digits(n \div 10) \o <<DigitChars[(n % 10) + 1]>>

\* const key = `${a},${b}`
PairKey(a, b) == Digits(a) \o <<",">> \o Digits(b)

----------------------------------------------------------------------------
(* getDivisorPairs *)

RECURSIVE DivisorLoop(_, _, _)
\* for (let i = 1; i <= Math.sqrt(n); i++): for an integer n the test is
\* i * i <= n; it is false at once for n <= 0 (Math.sqrt(n) is 0 or NaN)
DivisorLoop(n, i, pairs) ==
    IF i * i <= n
    THEN DivisorLoop(n, i + 1,
             IF n % i = 0
             THEN LET q == n \div i
                  IN  Append(pairs, IF i <= q THEN <<i, q>> ELSE <<q, i>>)
             ELSE pairs)
    ELSE pairs

RECURSIVE DivisorLoopSwapped(_, _, _)
DivisorLoopSwapped(n, i, pairs) ==
    IF i * i <= n
    THEN DivisorLoopSwapped(n, i + 1,
             IF n % i = 0 THEN Append(pairs, <<n \div i, i>>) ELSE pairs)
    ELSE pairs

\* getDivisorPairs pushing [n / i, i]: the larger number first
getDivisorPairsLargerFirst(n) == DivisorLoopSwapped(n, 1, <<>>)

RECURSIVE DivisorLoopStrict(_, _, _)
DivisorLoopStrict(n, i, pairs) ==
    IF i * i < n
    THEN DivisorLoopStrict(n, i + 1,
             IF n % i = 0
             THEN LET q == n \div i
                  IN  Append(pairs, IF i <= q THEN <<i, q>> ELSE <<q, i>>)
             ELSE pairs)
    ELSE pairs

\* getDivisorPairs with the loop test i < Math.sqrt(n): misses the square root
getDivisorPairsStrict(n) == DivisorLoopStrict(n, 1, <<>>)

getDivisorPairs(n) == DivisorLoop(n, 1, <<>>)

----------------------------------------------------------------------------
(* findConsistentPairs *)

RECURSIVE MultPairLoop(_, _, _, _, _)
\* for (const multPair of multPairs): the pairs [a, b] with a + b === addNum, in order
MultPairLoop(grid, i, j, multPairs, k) ==
    IF k > Len(multPairs) THEN <<>>
    ELSE LET a == multPairs[k][1]
             b == multPairs[k][2]
         IN  (IF a + b = grid[j + 1]
              THEN <<[a |-> a, b |-> b, i |-> i, j |-> j]>>
              ELSE <<>>)
             \o MultPairLoop(grid, i, j, multPairs, k + 1)

\* the extractor without `if (i === j) continue`
SameCellNever(i, j) == FALSE

\* if (i === j) continue;
SameCell(i, j) == i = j

RECURSIVE AddLoop(_, _, _, _)
\* for (let j = 0; j < gridNumbers.length; j++)
AddLoop(grid, i, j, multPairs) ==
    IF j >= Len(grid) THEN <<>>
    ELSE (IF SameCell(i, j) THEN <<>> ELSE MultPairLoop(grid, i, j, multPairs, 1))
         \o AddLoop(grid, i, j + 1, multPairs)

RECURSIVE MultLoop(_, _)
\* for (let i = 0; i < gridNumbers.length; i++): every match of the three
\* nested loops, in the order the loops reach them
MultLoop(grid, i) ==
    IF i >= Len(grid) THEN <<>>
    ELSE AddLoop(grid, i, 0, getDivisorPairs(grid[i + 1])) \o MultLoop(grid, i + 1)

\* const key = `${a},${b}` of the match h
HitKey(h) == PairKey(h.a, h.b)

\* pairMap after every match has been recorded: a Map keeps its entries in the
\* order their keys were first set, so there is one entry per key, placed by
\* the first match with that key (if (!pairMap.has(key)) pairMap.set(...)),
\* and its uses are the matches with that key in loop order (uses.push(...))
RecordUses(grid, hits) ==
    LET firsts == {k \in 1..Len(hits) : \A l \in 1..(k - 1) : HitKey(hits[l]) # HitKey(hits[k])}
        \* the position in hits of the n-th key set
        nth(n) == CHOOSE k \in firsts : Cardinality({l \in firsts : l < k}) = n - 1
        useOf(h) == [mult |-> [value |-> grid[h.i + 1], index |-> h.i],
                     add  |-> [value |-> grid[h.j + 1], index |-> h.j]]
        sameKey(n) == {k \in 1..Len(hits) : HitKey(hits[k]) = HitKey(hits[nth(n)])}
        \* the m-th match with the key of entry n
        mth(n, m) == CHOOSE k \in sameKey(n) : Cardinality({l \in sameKey(n) : l < k}) = m - 1
    IN  [n \in 1..Cardinality(firsts) |->
            [key  |-> HitKey(hits[nth(n)]),
             pair |-> <<hits[nth(n)].a, hits[nth(n)].b>>,
             uses |-> [m \in 1..Cardinality(sameKey(n)) |-> useOf(hits[mth(n, m)])]]]

\* Array.from(pairMap.values())
findConsistentPairs(grid) ==
    LET pairMap == RecordUses(grid, MultLoop(grid, 0))
    IN  [k \in 1..Len(pairMap) |-> [pair |-> pairMap[k].pair, uses |-> pairMap[k].uses]]

----------------------------------------------------------------------------
(* buildStripFromPairs, matchesKnownValues *)

RECURSIVE PairNumbers(_)
\* pairs.forEach(p => numbers.push(p.pair[0], p.pair[1]))
PairNumbers(pairs) ==
    IF pairs = <<>> THEN <<>>
    ELSE <<Head(pairs).pair[1], Head(pairs).pair[2]>> \o PairNumbers(Tail(pairs))

buildStripFromPairs(pairs) == SortAscending(PairNumbers(pairs))

\* matchesKnownValues comparing the lengths only
matchesLengthOnly(strip, knownStrip) == Len(strip) = Len(knownStrip)

matchesKnownValues(strip, knownStrip) ==
    IF Len(strip) # Len(knownStrip) THEN FALSE
    ELSE \A k \in 1..Len(strip) :
            ~(knownStrip[k] # None /\ knownStrip[k] # Some(strip[k]))

----------------------------------------------------------------------------
(* findGridAssignment *)

\* grid[idx] === null for an array grid: an index past the end reads
\* undefined, which is not null
CellIsNull(grid, idx) == idx < Len(grid) /\ grid[idx + 1] = None

\* findGridAssignment testing the addition cell only
UseFitsAddCellOnly(grid, use) ==
    /\ CellIsNull(grid, use.add.index)
    /\ use.mult.index < Len(grid)
    /\ use.add.index # use.mult.index

\* the condition under which findGridAssignment takes a use
UseFits(grid, use) ==
    /\ CellIsNull(grid, use.add.index)
    /\ CellIsNull(grid, use.mult.index)
    /\ use.add.index # use.mult.index

\* the write nextGrid[idx] = value left out
SetCellDropped(grid, idx, value) == grid

\* nextGrid[idx] = value on a copy of grid; writing past the end of a JavaScript
\* array extends it, which UseFits excludes here
SetCell(grid, idx, value) == [grid EXCEPT ![idx + 1] = value]

RECURSIVE findGridAssignmentFrom(_, _, _, _)
\* findGridAssignment(pairs, grid, pairIdx), resumed at use number u of pair pairIdx
findGridAssignmentFrom(pairs, grid, pairIdx, u) ==
    IF pairIdx = Len(pairs) THEN Some(grid)
    ELSE LET p == pairs[pairIdx + 1]
         IN  IF u > Len(p.uses) THEN None
             ELSE LET use == p.uses[u]
                      nextGrid == SetCell(
                          SetCell(grid, use.add.index,
                                  Some([num1 |-> p.pair[1], op |-> "+", num2 |-> p.pair[2]])),
                          use.mult.index,
                          Some([num1 |-> p.pair[1], op |-> "x", num2 |-> p.pair[2]]))
                      res == IF UseFits(grid, use)
                             THEN findGridAssignmentFrom(pairs, nextGrid, pairIdx + 1, 1)
                             ELSE None
                  IN  IF res # None THEN res
                      ELSE findGridAssignmentFrom(pairs, grid, pairIdx, u + 1)

RECURSIVE FirstUses(_, _, _)
\* every pair put on the first of its uses, or null when that use does not fit
FirstUses(pairs, grid, pairIdx) ==
    IF pairIdx = Len(pairs) THEN Some(grid)
    ELSE LET p == pairs[pairIdx + 1]
             use == p.uses[1]
         IN  IF ~UseFits(grid, use) THEN None
             ELSE FirstUses(pairs,
                            SetCell(SetCell(grid, use.add.index,
                                        Some([num1 |-> p.pair[1], op |-> "+",
                                              num2 |-> p.pair[2]])),
                                    use.mult.index,
                                    Some([num1 |-> p.pair[1], op |-> "x",
                                          num2 |-> p.pair[2]])),
                            pairIdx + 1)

\* findGridAssignment without the loop over the uses of a pair
findGridAssignmentFirstUses(pairs, grid) == FirstUses(pairs, grid, 0)

findGridAssignment(pairs, grid) == findGridAssignmentFrom(pairs, grid, 0, 1)

\* Array(16).fill(null)
EmptyGrid == [k \in 1..GridCells |-> None]

----------------------------------------------------------------------------
(* findOptimalCombination: the closure backtrack as an explicit stack *)

\* the pruning looking at the first use of a pair only
availableUseFirstOnly(uses, usedIndices) ==
    IF uses[1].add.index \notin usedIndices /\ uses[1].mult.index \notin usedIndices
    THEN 1 ELSE 0

\* the pruning testing the addition cell of a use only
availableUseAddOnly(uses, usedIndices) ==
    IF \E k \in 1..Len(uses) : uses[k].add.index \notin usedIndices
    THEN CHOOSE k \in 1..Len(uses) :
          /\ uses[k].add.index \notin usedIndices
          /\ \A l \in 1..(k - 1) : uses[l].add.index \in usedIndices
    ELSE 0

\* p.uses.find(u => !usedIndices.has(u.add.index) && !usedIndices.has(u.mult.index)):
\* the position of the first such use, 0 when find returns undefined
availableUse(uses, usedIndices) ==
    IF \E k \in 1..Len(uses) :
          uses[k].add.index \notin usedIndices /\ uses[k].mult.index \notin usedIndices
    THEN CHOOSE k \in 1..Len(uses) :
          /\ uses[k].add.index \notin usedIndices /\ uses[k].mult.index \notin usedIndices
          /\ \A l \in 1..(k - 1) :
                ~(uses[l].add.index \notin usedIndices /\ uses[l].mult.index \notin usedIndices)
    ELSE 0

\* the candidates at which the for loop, started at index i, would recurse
Usable(i, usedIndices) ==
    {k \in i..(Len(allPairs) - 1) : availableUse(allPairs[k + 1].uses, usedIndices) # 0}

\* the candidate records named by a combination of candidate indices
ComboPairs(combo) == [k \in 1..Len(combo) |-> allPairs[combo[k] + 1]]

\* the depth test as currentCombo.length === 3
ComboCompleteAtThree(combo) == Len(combo) = 3

\* currentCombo.length === 8
ComboComplete(combo) == Len(combo) = ComboSize

\* the budget test as tested >= maxAttempts
BudgetSpentEarly(t, m) == t >= m

\* the budget test with the comparison inverted
BudgetSpentInverted(t, m) == t < m

\* tested > maxAttempts
BudgetSpent(t, m) == t > m

\* if (solution || tested > maxAttempts) return;
ReturnsAtOnce(sol, t, m) == sol # None \/ BudgetSpent(t, m)

Top == stack[Len(stack)]

\* the activation record of backtrack(pairIdx, currentCombo, usedIndices, currentCounts);
\* i is the loop variable, entered says whether the for loop has begun.
\* currentCounts is copied and updated by the code but never read in a decision.
Frame(pairIdx, usedIndices) ==
    [pairIdx |-> pairIdx, usedIndices |-> usedIndices, i |-> pairIdx, entered |-> FALSE]

\* solve with the counter tested kept across calls instead of a fresh local
StartSolveStaleCounter(m) ==
    /\ maxAttempts' = m
    /\ allPairs' = findConsistentPairs(gridNumbers)
    /\ tested' = tested
    /\ solution' = None
    /\ aborted' = FALSE
    /\ currentCombo' = <<>>
    /\ stack' = <<Frame(0, {})>>
    /\ result' = None
    /\ pc' = "search"

\* the locals of solve and findOptimalCombination at the call backtrack(0, [], new Set(), new Map())
StartSolve(m) ==
    /\ maxAttempts' = m
    /\ allPairs' = findConsistentPairs(gridNumbers)
    /\ tested' = 0
    /\ solution' = None
    /\ aborted' = FALSE
    /\ currentCombo' = <<>>
    /\ stack' = <<Frame(0, {})>>
    /\ result' = None
    /\ pc' = "search"

\* the caller's first call solve(gridNumbers, stripValues, m)
CallSolve(m) ==
    /\ pc = "idle"
    /\ StartSolve(m)
    /\ UNCHANGED <<gridNumbers, stripValues, first>>
    /\ UNCHANGED <<generatorVars, validatorVars, assigned>>

\* backtrack returns at its first line
BacktrackGuard ==
    /\ pc = "search" /\ stack # <<>>
    /\ ~Top.entered
    /\ ReturnsAtOnce(solution, tested, maxAttempts)
    /\ stack' = ButLast(stack)
    /\ aborted' = (aborted \/ solution = None)
    /\ UNCHANGED <<gridNumbers, stripValues, maxAttempts, pc, allPairs, tested,
                   solution, currentCombo, result, first>>
    /\ UNCHANGED <<generatorVars, validatorVars, assigned>>

\* the object assigned to solution for a combination whose strip matches and
\* whose pairs can be assigned to the grid; null when there is none
Evaluate(combo, t) ==
    LET pairs == ComboPairs(combo)
        strip == buildStripFromPairs(pairs)
    IN  IF matchesKnownValues(strip, stripValues)
        THEN LET assignment == findGridAssignment(pairs, EmptyGrid)
             IN  IF assignment # None
                 THEN Some([strip |-> strip, grid |-> assignment[1], tested |-> t])
                 ELSE None
        ELSE None

\* if (currentCombo.length === 8) { tested++; ...; return; }
\* solution.pairs is the array currentCombo itself, not a copy
BacktrackEvaluate ==
    /\ pc = "search" /\ stack # <<>>
    /\ ~Top.entered
    /\ ~ReturnsAtOnce(solution, tested, maxAttempts)
    /\ ComboComplete(currentCombo)
    /\ tested' = tested + 1
    /\ solution' = IF Evaluate(currentCombo, tested + 1) # None
                   THEN Evaluate(currentCombo, tested + 1)
                   ELSE solution
    /\ stack' = ButLast(stack)
    /\ UNCHANGED <<gridNumbers, stripValues, maxAttempts, pc, allPairs,
                   currentCombo, result, aborted, first>>
    /\ UNCHANGED <<generatorVars, validatorVars, assigned>>

\* solution.pairs as read now: { pairs: currentCombo, ... } stores the array
\* currentCombo itself, which later push and pop calls keep changing
SolutionPairs == ComboPairs(currentCombo)

\* the frame on top may run its for loop: it passed the first two ifs, or it
\* resumes after a recursive call returned
InLoop ==
    /\ pc = "search" /\ stack # <<>>
    /\ \/ Top.entered
       \/ /\ ~ReturnsAtOnce(solution, tested, maxAttempts)
          /\ ~ComboComplete(currentCombo)

\* currentCombo.pop() after the recursive call returned
ComboAtLoop == IF Top.entered THEN ButLast(currentCombo) ELSE currentCombo

\* the for loop runs to its next recursive call: pushes p and calls backtrack(i + 1, ...)
BacktrackDescend ==
    /\ InLoop
    /\ solution = None
    /\ Usable(Top.i, Top.usedIndices) # {}
    /\ LET i == CHOOSE k \in Usable(Top.i, Top.usedIndices) :
                    \A l \in Usable(Top.i, Top.usedIndices) : k <= l
           use == allPairs[i + 1].uses[availableUse(allPairs[i + 1].uses, Top.usedIndices)]
           nextUsed == Top.usedIndices \cup {use.add.index, use.mult.index}
       IN  /\ currentCombo' = Append(ComboAtLoop, i)
           /\ stack' = Append([stack EXCEPT ![Len(stack)].i = i + 1,
                                            ![Len(stack)].entered = TRUE],
                              Frame(i + 1, nextUsed))
    /\ UNCHANGED <<gridNumbers, stripValues, maxAttempts, pc, allPairs, tested,
                   solution, result, aborted, first>>
    /\ UNCHANGED <<generatorVars, validatorVars, assigned>>

\* the for loop ends (i reaches allPairs.length) or returns at `if (solution) return`
BacktrackReturn ==
    /\ InLoop
    /\ (solution # None \/ Usable(Top.i, Top.usedIndices) = {})
    /\ currentCombo' = ComboAtLoop
    /\ stack' = ButLast(stack)
    /\ UNCHANGED <<gridNumbers, stripValues, maxAttempts, pc, allPairs, tested,
                   solution, result, aborted, first>>
    /\ UNCHANGED <<generatorVars, validatorVars, assigned>>

\* solve returning a reason instead of null when the budget cut the search
SolveResultWithReason(sol) ==
    IF sol # None THEN Some([strip |-> sol[1].strip, grid |-> sol[1].grid])
    ELSE IF aborted THEN Some([reason |-> "budget"])
    ELSE None

\* what solve returns for the solution findOptimalCombination returned
SolveResult(sol) ==
    IF sol # None THEN Some([strip |-> sol[1].strip, grid |-> sol[1].grid]) ELSE None

\* findOptimalCombination returns solution; solve returns
SolveReturn ==
    /\ pc = "search" /\ stack = <<>>
    /\ result' = SolveResult(solution)
    /\ pc' = "done"
    /\ UNCHANGED <<gridNumbers, stripValues, maxAttempts, allPairs, tested, solution,
                   stack, currentCombo, aborted, first>>
    /\ UNCHANGED <<generatorVars, validatorVars, assigned>>

\* the caller keeps what the first call returned and calls solve again on the
\* same grid and strip with a budget m >= the first
CallAgain(m) ==
    /\ pc = "done" /\ first = None
    /\ m >= maxAttempts
    /\ first' = Some([maxAttempts |-> maxAttempts, result |-> result,
                      found |-> solution # None, tested |-> tested,
                      aborted |-> aborted])
    /\ StartSolve(m)
    /\ UNCHANGED <<gridNumbers, stripValues>>
    /\ UNCHANGED <<generatorVars, validatorVars, assigned>>

----------------------------------------------------------------------------
(* The puzzles the caller solves *)

\* const gridNumbers of the solver script
SampleGrid == <<252, 260, 13, 30, 25, 144, 36, 30, 48, 21, 40, 30, 224, 56, 46, 22>>

\* const stripValues of the solver script
SampleStrip == <<Some(1), None, None, Some(5), Some(6), None, None, Some(10),
                 None, None, Some(21), Some(23), Some(24), None, Some(28), None>>

\* seven pairs of a generated puzzle; the eighth is free
BasePairs == <<<<1, 2>>, <<1, 3>>, <<1, 4>>, <<1, 5>>, <<2, 3>>, <<2, 4>>, <<2, 5>>>>

RECURSIVE generateGrid(_)
\* TetonorGenerator.generateGrid before shuffling: product, then sum, of each pair
generateGrid(pairs) ==
    IF pairs = <<>> THEN <<>>
    ELSE <<Head(pairs)[1] * Head(pairs)[2], Head(pairs)[1] + Head(pairs)[2]>>
         \o generateGrid(Tail(pairs))

RECURSIVE Flatten(_)
Flatten(pairs) ==
    IF pairs = <<>> THEN <<>> ELSE Head(pairs) \o Flatten(Tail(pairs))

\* TetonorGenerator.buildStrip
buildStrip(pairs) == SortAscending(Flatten(pairs))

\* TetonorGenerator.hideStripValues: the slots outside `revealed` become null
hideStripValues(strip, revealed) ==
    [k \in 1..Len(strip) |-> IF (k - 1) \in revealed THEN Some(strip[k]) ELSE None]

FreePairs == {p \in (1..MaxNum) \X (1..MaxNum) : p[1] <= p[2] /\ p[2] <= p[1] + 1}

\* a strip no combination can match: slot 0 shows 0
ImpossibleStrip == [k \in 1..GridCells |-> IF k = 1 THEN Some(0) ELSE None]

\* a generated puzzle with the free pair fp, its strip either all hidden or
\* all revealed
GeneratedPuzzles ==
    {[grid |-> generateGrid(Append(BasePairs, fp)),
      strip |-> hideStripValues(buildStrip(Append(BasePairs, fp)), revealed)] :
        fp \in FreePairs, revealed \in {{}, 0..(GridCells - 1)}}

SamplePuzzles ==
    {[grid |-> SampleGrid, strip |-> s] : s \in {SampleStrip, ImpossibleStrip}}

\* the sample grid with cell idx holding v
WithCell(idx, v) == [SampleGrid EXCEPT ![idx + 1] = v]

\* inputs outside the documented shape: a grid cell that is 0 or negative, a
\* grid of 15 or 17 numbers, a strip of 15 slots
MalformedPuzzles ==
    {[grid |-> g, strip |-> SampleStrip] :
        g \in {WithCell(2, 0), WithCell(2, -13), ButLast(SampleGrid), Append(SampleGrid, 7)}}
    \cup
    {[grid |-> SampleGrid, strip |-> ButLast(SampleStrip)]}

\* a grid of 16 cells from which fewer than 8 candidates can be extracted:
\* the products and sums of three pairs, every other cell holding 1
SparseGrid ==
    generateGrid(<<<<1, 2>>, <<1, 3>>, <<1, 4>>>>) \o [k \in 1..(GridCells - 6) |-> 1]

SparsePuzzles ==
    {[grid |-> SparseGrid, strip |-> s] : s \in {[k \in 1..GridCells |-> None], SampleStrip}}

Puzzles == GeneratedPuzzles \cup SamplePuzzles \cup MalformedPuzzles \cup SparsePuzzles

\* generate has not been called
GeneratorAtRest ==
    /\ variant = "static"
    /\ difficulty = "medium"
    /\ rng = [value |-> 0, step |-> 0]
    /\ generatedPairs = <<>>
    /\ usedNumbers = {}
    /\ attempts = 0
    /\ puzzle = None

\* validate has not been called
ValidatorAtRest == userInputs = None /\ validation = None

Init ==
    /\ \E p \in Puzzles : gridNumbers = p.grid /\ stripValues = p.strip
    /\ maxAttempts = 0
    /\ pc = "idle"
    /\ allPairs = <<>>
    /\ tested = 0
    /\ solution = None
    /\ stack = <<>>
    /\ currentCombo = <<>>
    /\ result = None
    /\ aborted = FALSE
    /\ first = None
    /\ GeneratorAtRest /\ ValidatorAtRest /\ assigned = None

Next ==
    \/ \E m \in 0..MaxBudget : CallSolve(m)
    \/ BacktrackGuard
    \/ BacktrackEvaluate
    \/ BacktrackDescend
    \/ BacktrackReturn
    \/ SolveReturn
    \/ \E m \in 0..MaxBudget : CallAgain(m)

Spec == Init /\ [][Next]_vars

----------------------------------------------------------------------------
(* findConsistentPairs on its own, applied to arbitrary short grids and to *)
(* the puzzles' grids                                                      *)

RECURSIVE SeqsUpTo(_, _)
\* the sequences over S of length at most n
SeqsUpTo(S, n) ==
    IF n = 0 THEN {<<>>}
    ELSE LET shorter == SeqsUpTo(S, n - 1)
         IN  shorter \cup {Append(q, x) : q \in {r \in shorter : Len(r) = n - 1}, x \in S}

ExtractGrids == SeqsUpTo((-1)..MaxVal, MaxLen) \cup {p.grid : p \in Puzzles}

InitExtract ==
    /\ gridNumbers \in ExtractGrids
    /\ stripValues = <<>>
    /\ maxAttempts = 0
    /\ pc = "idle"
    /\ allPairs = <<>>
    /\ tested = 0
    /\ solution = None
    /\ stack = <<>>
    /\ currentCombo = <<>>
    /\ result = None
    /\ aborted = FALSE
    /\ first = None
    /\ GeneratorAtRest /\ ValidatorAtRest /\ assigned = None

\* const allPairs = this.findConsistentPairs(gridNumbers);
Extract ==
    /\ pc = "idle"
    /\ allPairs' = findConsistentPairs(gridNumbers)
    /\ pc' = "extracted"
    /\ UNCHANGED <<gridNumbers, stripValues, maxAttempts, tested, solution, stack,
                   currentCombo, result, aborted, first>>
    /\ UNCHANGED <<generatorVars, validatorVars, assigned>>

SpecExtract == InitExtract /\ [][Extract]_vars

----------------------------------------------------------------------------
(* TetonorGenerator.generate followed by solve on the puzzle it returned   *)

\* const maxAttempts = 1000 of generatePairs
GenerateMaxAttempts == 1000

\* maxAttempts = 50000, the default of solve
DefaultMaxAttempts == 50000

\* the random source returns the fractions value / RngDen
RngDen == 11

\* ... starting at a value in 0..MaxSeed
MaxSeed == 1

\* ... and moving by a step in 0..MaxStep (modulo RngDen) at every call
MaxStep == 3

\* the random sources: a source with step 0 returns the same value at every call
RandomSources == {[value |-> v, step |-> s] : v \in 0..MaxSeed, s \in 0..MaxStep}

\* the source after one call of rng()
RngNext(r) == [r EXCEPT !.value = (r.value + r.step) % RngDen]

\* Math.floor(rng() * n)
FloorTimes(r, n) == (r.value * n) \div RngDen

\* revealedPercentage is kept in tenths: 6 stands for 0.6
getDifficultyConfig(d) ==
    IF d = "easy"
    THEN [minNumber |-> 2, maxNumber |-> 15, pairCount |-> 8, revealedPercentage |-> 6]
    ELSE IF d = "hard"
    THEN [minNumber |-> 1, maxNumber |-> 50, pairCount |-> 8, revealedPercentage |-> 4]
    ELSE [minNumber |-> 1, maxNumber |-> 30, pairCount |-> 8, revealedPercentage |-> 5]

\* Math.floor(rng() * (max - min + 1)) + min
randomInt(min, max, r) == FloorTimes(r, max - min + 1) + min

RECURSIVE ShuffleFrom(_, _, _)
\* for (let i = array.length - 1; i > 0; i--) { j = ...; swap }: the array and
\* the random source after the loop
ShuffleFrom(array, i, r) ==
    IF i <= 0 THEN [array |-> array, rng |-> r]
    ELSE LET j == FloorTimes(r, i + 1)
         IN  ShuffleFrom([array EXCEPT ![i + 1] = array[j + 1], ![j + 1] = array[i + 1]],
                         i - 1, RngNext(r))

shuffleArray(array, r) == ShuffleFrom(array, Len(array) - 1, r)

\* pairs.map(p => p.numbers)
PairsNumbers(ps) == [k \in 1..Len(ps) |-> ps[k].numbers]

\* the while condition of generatePairs: generator.js also counts its attempts
LoopContinues ==
    /\ Len(generatedPairs) < getDifficultyConfig(difficulty).pairCount
    /\ variant = "static" => attempts < GenerateMaxAttempts

\* generate(seed, difficulty) up to the first test of the while loop
CallGenerate ==
    /\ pc = "start"
    /\ generatedPairs' = <<>>
    /\ usedNumbers' = {}
    /\ attempts' = 0
    /\ pc' = "generatePairs"
    /\ UNCHANGED <<variant, difficulty, rng, puzzle, solverLocals, validatorVars, assigned>>

\* one turn of the while loop of generatePairs
GeneratePairsAttempt ==
    /\ pc = "generatePairs"
    /\ LoopContinues
    /\ LET config == getDifficultyConfig(difficulty)
           a == randomInt(config.minNumber, config.maxNumber, rng)
           b == randomInt(config.minNumber, config.maxNumber, RngNext(rng))
           min == IF a < b THEN a ELSE b
           max == IF a < b THEN b ELSE a
           key == PairKey(min, max)
       IN  /\ attempts' = IF variant = "static" THEN attempts + 1 ELSE attempts
           /\ rng' = RngNext(RngNext(rng))
           /\ IF a = b \/ key \in usedNumbers
              THEN UNCHANGED <<generatedPairs, usedNumbers>>
              ELSE /\ usedNumbers' = usedNumbers \cup {key}
                   /\ generatedPairs' =
                         Append(generatedPairs,
                                [numbers |-> <<min, max>>, sum |-> min + max,
                                 product |-> min * max, uses |-> 0])
    /\ UNCHANGED <<variant, difficulty, puzzle, pc, solverLocals, validatorVars, assigned>>

\* the while loop has ended: generatePairs returns whatever pairs it has, and
\* generate builds the strip, the shuffled grid and the partly hidden strip
GenerateReturn ==
    /\ pc = "generatePairs"
    /\ ~LoopContinues
    /\ LET config == getDifficultyConfig(difficulty)
           numbers == PairsNumbers(generatedPairs)
           strip == buildStrip(numbers)
           grid == shuffleArray(generateGrid(numbers), rng)
           revealCount == (Len(strip) * config.revealedPercentage) \div 10
           positions == shuffleArray([k \in 1..Len(strip) |-> k - 1], grid.rng)
           revealed == {positions.array[k] : k \in 1..revealCount}
       IN  /\ puzzle' = Some([difficulty |-> difficulty,
                              grid |-> grid.array,
                              strip |-> hideStripValues(strip, revealed),
                              solution |-> [strip |-> strip, pairs |-> numbers]])
           /\ rng' = positions.rng
    /\ pc' = "generated"
    /\ UNCHANGED <<variant, difficulty, generatedPairs, usedNumbers, attempts,
                   solverLocals, validatorVars, assigned>>

\* the caller hands puzzle.grid and puzzle.strip to solve
PassPuzzle ==
    /\ pc = "generated"
    /\ gridNumbers' = puzzle[1].grid
    /\ stripValues' = puzzle[1].strip
    /\ pc' = "idle"
    /\ UNCHANGED <<maxAttempts, allPairs, tested, solution, stack, currentCombo, result,
                   aborted, first, generatorVars, validatorVars, assigned>>

Difficulties == {"easy", "medium", "hard"}

InitGenerate ==
    /\ variant \in {"static", "browser"}
    /\ difficulty \in Difficulties
    /\ rng \in RandomSources
    /\ generatedPairs = <<>>
    /\ usedNumbers = {}
    /\ attempts = 0
    /\ puzzle = None
    /\ pc = "start"
    /\ gridNumbers = <<>>
    /\ stripValues = <<>>
    /\ maxAttempts = 0
    /\ allPairs = <<>>
    /\ tested = 0
    /\ solution = None
    /\ stack = <<>>
    /\ currentCombo = <<>>
    /\ result = None
    /\ aborted = FALSE
    /\ first = None
    /\ ValidatorAtRest /\ assigned = None

NextGenerate ==
    \/ CallGenerate
    \/ GeneratePairsAttempt
    \/ GenerateReturn
    \/ PassPuzzle
    \/ \E m \in (0..MaxBudget) \cup {DefaultMaxAttempts} : CallSolve(m)
    \/ BacktrackGuard
    \/ BacktrackEvaluate
    \/ BacktrackDescend
    \/ BacktrackReturn
    \/ SolveReturn

SpecGenerate == InitGenerate /\ [][NextGenerate]_vars

----------------------------------------------------------------------------
(* TetonorValidator.validate.  A number read from an input box is nullable *)
(* here: <<>> stands for a missing value (null or NaN).  The operator of a *)
(* cell is "+", "x" or "" (none chosen).  The error messages are left out. *)

\* the user's operands range over 1..MaxOperand
MaxOperand == 5

\* (counts.get(num) || 0) after every element of s was counted
CountOf(s, n) == Cardinality({k \in 1..Len(s) : s[k] = n})

\* finalValue of strip slot k (1-based): the known value, else the user's input
FinalValue(pz, inputs, k) ==
    IF pz.strip[k] # None THEN pz.strip[k] ELSE inputs.stripInputs[k]

\* stripFeedback: one entry per hidden slot, saying whether the input equals
\* puzzle.solution.strip at that slot
StripFeedback(pz, inputs) ==
    LET hidden == SelectSeq([k \in 1..Len(pz.strip) |-> k], LAMBDA k : pz.strip[k] = None)
    IN  [h \in 1..Len(hidden) |->
            [index |-> hidden[h] - 1,
             correct |-> inputs.stripInputs[hidden[h]] = Some(pz.solution.strip[hidden[h]])]]

\* userStrip: the final values that are numbers, in slot order
UserStrip(pz, inputs) ==
    LET present == SelectSeq([k \in 1..Len(pz.strip) |-> k],
                             LAMBDA k : FinalValue(pz, inputs, k) # None)
    IN  [h \in 1..Len(present) |-> FinalValue(pz, inputs, present[h])[1]]

\* !isNaN(num1) && !isNaN(num2) && op
InputComplete(gridInput) ==
    gridInput.num1 # None /\ gridInput.num2 # None /\ gridInput.op # ""

\* mathCorrect of cell i (0-based); puzzle.grid[i] is undefined past the grid
MathCorrect(pz, gridInput, i) ==
    /\ InputComplete(gridInput)
    /\ i < Len(pz.grid)
    /\ pz.grid[i + 1] = (IF gridInput.op = "+"
                         THEN gridInput.num1[1] + gridInput.num2[1]
                         ELSE gridInput.num1[1] * gridInput.num2[1])

\* cellCorrectStatus as gridFeedback reports it
GridFeedback(pz, inputs) ==
    [i \in 1..Len(inputs.gridInputs) |->
        [index |-> i - 1, correct |-> MathCorrect(pz, inputs.gridInputs[i], i - 1)]]

\* [num1, num2].sort((a, b) => a - b)
SortedPair(gridInput) ==
    IF gridInput.num1[1] <= gridInput.num2[1]
    THEN <<gridInput.num1[1], gridInput.num2[1]>>
    ELSE <<gridInput.num2[1], gridInput.num1[1]>>

\* addPairs (isAdd) or multPairs (~isAdd): the pairs of the cells whose math
\* is correct, in cell order
CellPairs(pz, inputs, isAdd) ==
    LET cells == SelectSeq([i \in 1..Len(inputs.gridInputs) |-> i],
                           LAMBDA i : /\ MathCorrect(pz, inputs.gridInputs[i], i - 1)
                                      /\ (inputs.gridInputs[i].op = "+") = isAdd)
    IN  [c \in 1..Len(cells) |-> SortedPair(inputs.gridInputs[cells[c]])]

\* multPairsCopy.splice(idx, 1), idx 0-based
Splice(s, idx) == SubSeq(s, 1, idx) \o SubSeq(s, idx + 2, Len(s))

\* multPairsCopy.indexOf(pairStr), -1 when absent
IndexOf(s, x) ==
    IF \E k \in 1..Len(s) : s[k] = x
    THEN (CHOOSE k \in 1..Len(s) : s[k] = x /\ \A l \in 1..(k - 1) : s[l] # x) - 1
    ELSE -1

RECURSIVE MatchPairs(_, _, _)
\* addPairs.forEach(pair => ...) from the k-th addition pair on: matchedPairs,
\* unmatchedAdd and what is left of multPairsCopy
MatchPairs(addPairs, multPairsCopy, k) ==
    IF k > Len(addPairs)
    THEN [matchedPairs |-> <<>>, unmatchedAdd |-> <<>>, multPairsCopy |-> multPairsCopy]
    ELSE LET pairStr == PairKey(addPairs[k][1], addPairs[k][2])
             idx == IndexOf(multPairsCopy, pairStr)
         IN  IF idx # -1
             THEN LET rest == MatchPairs(addPairs, Splice(multPairsCopy, idx), k + 1)
                  IN  [rest EXCEPT !.matchedPairs = <<addPairs[k]>> \o @]
             ELSE LET rest == MatchPairs(addPairs, multPairsCopy, k + 1)
                  IN  [rest EXCEPT !.unmatchedAdd = <<addPairs[k]>> \o @]

\* step 5 left out
StripCountsUnchecked(matchedPairs, userStrip) == TRUE

\* step 5: every number of the strip is used as often as it occurs, and every
\* number used occurs in the strip
StripCountsAgree(matchedPairs, userStrip) ==
    LET used == Flatten(matchedPairs)
    IN  /\ \A k \in 1..Len(userStrip) :
              CountOf(used, userStrip[k]) = CountOf(userStrip, userStrip[k])
        /\ \A k \in 1..Len(used) : CountOf(userStrip, used[k]) > 0

validate(pz, inputs) ==
    LET stripFeedback == StripFeedback(pz, inputs)
        multPairs == CellPairs(pz, inputs, FALSE)
        matching == MatchPairs(CellPairs(pz, inputs, TRUE),
                               [k \in 1..Len(multPairs) |->
                                   PairKey(multPairs[k][1], multPairs[k][2])], 1)
    IN  [success |->
            /\ \A h \in 1..Len(stripFeedback) : stripFeedback[h].correct
            /\ matching.unmatchedAdd = <<>>
            /\ matching.multPairsCopy = <<>>
            /\ Len(matching.matchedPairs) = ComboSize
            /\ StripCountsAgree(matching.matchedPairs, UserStrip(pz, inputs)),
         stripFeedback |-> stripFeedback,
         gridFeedback |-> GridFeedback(pz, inputs)]

\* the pairs of the puzzle given to the validator
ValidatedPairs == Append(BasePairs, <<3, 4>>)

\* the puzzle as generate returns it, its strip all hidden or all revealed
ValidatedPuzzles ==
    {[difficulty |-> "medium",
      grid |-> generateGrid(ValidatedPairs),
      strip |-> hideStripValues(buildStrip(ValidatedPairs), revealed),
      solution |-> [strip |-> buildStrip(ValidatedPairs), pairs |-> ValidatedPairs]] :
        revealed \in {{}, 0..(GridCells - 1)}}

\* what a user can leave in the three inputs of one cell
Operands == {None} \cup {Some(n) : n \in 1..MaxOperand}

CellEntries == {[num1 |-> a, op |-> o, num2 |-> b] : a \in Operands, b \in Operands,
                                                      o \in {"+", "x", ""}}

\* the inputs that follow the puzzle's own pairs: generateGrid puts the product
\* of pair k in cell 2k and its sum in cell 2k + 1
CorrectGridInputs ==
    [i \in 1..GridCells |->
        [num1 |-> Some(ValidatedPairs[(i + 1) \div 2][1]),
         op   |-> IF i % 2 = 1 THEN "x" ELSE "+",
         num2 |-> Some(ValidatedPairs[(i + 1) \div 2][2])]]

\* the correct inputs with one cell changed at will, or with both cells of one
\* pair given to another pair, or with an entry too many or too few
GridInputsTried ==
    {[CorrectGridInputs EXCEPT ![c] = e] : c \in 1..GridCells, e \in CellEntries}
    \cup
    {[CorrectGridInputs EXCEPT
         ![2 * k - 1] = [num1 |-> Some(a), op |-> o1, num2 |-> Some(b)],
         ![2 * k] = [num1 |-> Some(a), op |-> o2, num2 |-> Some(b)]] :
        k \in 1..ComboSize, a \in 1..MaxOperand, b \in 1..MaxOperand,
        o1 \in {"+", "x"}, o2 \in {"+", "x"}}
    \cup
    {Append(CorrectGridInputs, e) : e \in CellEntries}
    \cup
    {ButLast(CorrectGridInputs)}

\* the solution's strip typed in, or with its first slot changed or left empty
StripInputsTried ==
    LET correct == [k \in 1..GridCells |-> Some(buildStrip(ValidatedPairs)[k])]
    IN  {[correct EXCEPT ![1] = v] : v \in Operands}

InitValidate ==
    /\ puzzle \in {Some(pz) : pz \in ValidatedPuzzles}
    /\ userInputs \in {Some([stripInputs |-> s, gridInputs |-> g]) :
                          s \in StripInputsTried, g \in GridInputsTried}
    /\ validation = None
    /\ pc = "filled"
    /\ variant = "static"
    /\ difficulty = "medium"
    /\ rng = [value |-> 0, step |-> 0]
    /\ generatedPairs = <<>>
    /\ usedNumbers = {}
    /\ attempts = 0
    /\ gridNumbers = <<>>
    /\ stripValues = <<>>
    /\ maxAttempts = 0
    /\ allPairs = <<>>
    /\ tested = 0
    /\ solution = None
    /\ stack = <<>>
    /\ currentCombo = <<>>
    /\ result = None
    /\ aborted = FALSE
    /\ first = None
    /\ assigned = None

\* TetonorValidator.validate(puzzle, userInputs)
Validate ==
    /\ pc = "filled"
    /\ validation' = Some(validate(puzzle[1], userInputs[1]))
    /\ pc' = "validated"
    /\ UNCHANGED <<solverLocals, generatorVars, userInputs, assigned>>

SpecValidate == InitValidate /\ [][Validate]_vars

----------------------------------------------------------------------------
(* findGridAssignment on its own, called with any 8 of the candidates of a *)
(* 16-cell grid                                                            *)

RECURSIVE CombinationsFrom(_, _, _)
\* the ascending sequences of `size` candidate indices taken from i..(n - 1)
CombinationsFrom(i, n, size) ==
    IF size = 0 THEN {<<>>}
    ELSE IF i >= n THEN {}
    ELSE {<<i>> \o c : c \in CombinationsFrom(i + 1, n, size - 1)}
         \cup CombinationsFrom(i + 1, n, size)

\* array.reverse() on a copy
Reversed(s) == [k \in 1..Len(s) |-> s[Len(s) + 1 - k]]

\* the grids of the generated puzzles
AssignGrids == {p.grid : p \in GeneratedPuzzles}

InitAssign ==
    /\ gridNumbers \in AssignGrids
    /\ stripValues = <<>>
    /\ maxAttempts = 0
    /\ pc = "idle"
    /\ allPairs = <<>>
    /\ tested = 0
    /\ solution = None
    /\ stack = <<>>
    /\ currentCombo = <<>>
    /\ result = None
    /\ aborted = FALSE
    /\ first = None
    /\ GeneratorAtRest /\ ValidatorAtRest /\ assigned = None

\* findGridAssignment(combo, Array(16).fill(null)) for 8 candidates, in
\* ascending or descending order of their place in allPairs
Assign ==
    /\ pc = "extracted"
    /\ \E c \in CombinationsFrom(0, Len(allPairs), ComboSize) :
          \E combo \in {c, Reversed(c)} :
              /\ currentCombo' = combo
              /\ assigned' = findGridAssignment(ComboPairs(combo), EmptyGrid)
    /\ pc' = "assigned"
    /\ UNCHANGED <<gridNumbers, stripValues, maxAttempts, allPairs, tested, solution,
                   stack, result, aborted, first, generatorVars, validatorVars>>

NextAssign == Extract \/ Assign

SpecAssign == InitAssign /\ [][NextAssign]_vars

----------------------------------------------------------------------------
(* Vocabulary of the properties *)

\* solve has returned to its caller (ordinarily: a Solution or null)
Returned == pc = "done"

\* the grid has the documented 16 cells
WellSizedGrid == Len(gridNumbers) = GridCells

\* the cells of a returned grid assignment that hold the operator op
CellsWith(grid, op) == {k \in 1..Len(grid) : grid[k] # None /\ grid[k][1].op = op}

\* the pair and use recorded for a grid are arithmetically right
UseIsConsistent(grid, pair, use) ==
    /\ use.mult.index \in 0..(Len(grid) - 1)
    /\ use.add.index \in 0..(Len(grid) - 1)
    /\ grid[use.mult.index + 1] = pair[1] * pair[2]
    /\ grid[use.add.index + 1] = pair[1] + pair[2]
    /\ use.add.index # use.mult.index

RECURSIVE CoversFrom(_, _)
\* every set of candidate indices that, extending `chosen` (which covers the
\* cells `covered` with one use per candidate), covers all 16 cells with one
\* use per candidate and no cell twice; found cell by cell, lowest free cell first
CoversFrom(chosen, covered) ==
    IF covered = 0..(GridCells - 1) THEN {chosen}
    ELSE LET c == CHOOSE x \in (0..(GridCells - 1)) \ covered :
                      \A y \in (0..(GridCells - 1)) \ covered : x <= y
             options ==
                 {o \in UNION {{<<k, u>> : u \in 1..Len(allPairs[k + 1].uses)} :
                                  k \in (0..(Len(allPairs) - 1)) \ chosen} :
                     LET use == allPairs[o[1] + 1].uses[o[2]]
                     IN  /\ c \in {use.add.index, use.mult.index}
                         /\ use.add.index # use.mult.index
                         /\ {use.add.index, use.mult.index} \subseteq 0..(GridCells - 1)
                         /\ {use.add.index, use.mult.index} \cap covered = {}}
         IN  UNION {CoversFrom(chosen \cup {o[1]},
                               covered \cup {allPairs[o[1] + 1].uses[o[2]].add.index,
                                             allPairs[o[1] + 1].uses[o[2]].mult.index}) :
                    o \in options}

RECURSIVE AscendingSeq(_)
\* the elements of a set of numbers in ascending order
AscendingSeq(S) ==
    IF S = {} THEN <<>>
    ELSE LET x == CHOOSE y \in S : \A z \in S : y <= z
         IN  <<x>> \o AscendingSeq(S \ {x})

\* the strip value at position k (1-based) of the numbers of the candidates in S:
\* the k-th smallest, counted with multiplicity
StripOf(S) ==
    LET nums == [k \in 1..(2 * Cardinality(S)) |->
                    allPairs[AscendingSeq(S)[(k + 1) \div 2] + 1].pair[2 - (k % 2)]]
    IN  SortAscending(nums)

\* the combinations of 8 distinct candidates that agree with every known slot
\* of the strip and can be laid on the 16 cells, one use each, no cell twice
ValidCombinations ==
    {S \in CoversFrom({}, {}) :
        /\ Cardinality(S) = ComboSize
        /\ Len(stripValues) = 2 * ComboSize
        /\ \A k \in 1..Len(stripValues) :
              stripValues[k] = None \/ stripValues[k] = Some(StripOf(S)[k])}

\* S comes before T in lexicographic order of ascending candidate indices
LexBefore(S, T) ==
    S # T /\ (CHOOSE x \in (S \ T) \cup (T \ S) :
                  \A y \in (S \ T) \cup (T \ S) : x <= y) \in S

\* the first of a non-empty set of combinations
FirstOf(combinations) ==
    CHOOSE S \in combinations : \A T \in combinations : T = S \/ LexBefore(S, T)

----------------------------------------------------------------------------
(* C1: every Solution returned for a 16-cell grid has a grid assignment    *)
(* with a non-null entry at each of the 16 indices, 8 of them additions    *)
(* and 8 multiplications (so no index was assigned twice).                 *)
C1_AssignmentCoversGrid ==
    (Returned /\ result # None /\ WellSizedGrid) =>
        LET grid == result[1].grid
        IN  /\ Len(grid) = GridCells
            /\ \A k \in 1..GridCells : grid[k] # None
            /\ Cardinality(CellsWith(grid, "+")) = ComboSize
            /\ Cardinality(CellsWith(grid, "x")) = ComboSize

\* a Solution has been returned for a 16-cell grid in which some value
\* occurs more than once (so some candidate has several uses)
C1_Witness ==
    /\ Returned /\ result # None /\ WellSizedGrid
    /\ \E k \in 1..Len(allPairs) : Len(allPairs[k].uses) > 1

(* C2: every Solution returned carries a strip of 16 numbers, ascending,   *)
(* equal to the input strip at every slot that is not null.                *)
C2_StripAgreesWithKnown ==
    (Returned /\ result # None) =>
        LET strip == result[1].strip
        IN  /\ Len(strip) = 2 * ComboSize
            /\ \A k \in 1..(Len(strip) - 1) : strip[k] <= strip[k + 1]
            /\ Len(stripValues) = Len(strip)
            /\ \A k \in 1..Len(strip) :
                  stripValues[k] # None => stripValues[k] = Some(strip[k])

\* the sample puzzle of the source has been solved: its strip shows
\* 1, 5, 6, 10, 21, 23, 24, 28 at positions 0, 3, 4, 7, 10, 11, 12, 14
C2_Witness ==
    /\ Returned /\ result # None
    /\ gridNumbers = SampleGrid /\ stripValues = SampleStrip

(* C3 (as claimed): one call of solve evaluates at most maxAttempts        *)
(* complete 8-pair combinations; tested counts exactly those evaluations.  *)
C3_AtMostMaxAttempts == tested <= maxAttempts

C5_NotFoundWithinBudgetIsDefinitive ==
    (Returned /\ result = None /\ tested <= maxAttempts /\ WellSizedGrid)
    => ValidCombinations = {}

\* not found within budget although at least 8 candidates were extracted
\* and some complete combination was evaluated
C5_Witness ==
    /\ Returned /\ result = None /\ tested <= maxAttempts /\ WellSizedGrid
    /\ Len(allPairs) >= ComboSize /\ tested > 0

(* C6: budget monotonicity: with the same grid and strip and m1 < m2, a    *)
(* Solution under m1 implies a Solution under m2, and a not-found that was *)
(* not cut by the budget stays a not-found that is not cut by the budget.  *)
C6_BudgetMonotone ==
    (Returned /\ first # None /\ first[1].maxAttempts < maxAttempts) =>
        /\ first[1].result # None => result # None
        /\ (first[1].result = None /\ ~first[1].aborted) => (result = None /\ ~aborted)

\* a Solution under m1, and a second call with m2 > m1 has returned
C6_Witness ==
    /\ Returned /\ first # None /\ first[1].maxAttempts < maxAttempts
    /\ first[1].result # None

(* C7: the Solution returned is the one built from the first combination,  *)
(* in lexicographic order of candidate indices, that matches the strip and *)
(* admits a grid assignment; nothing is evaluated after it is found; and   *)
(* two calls with the same grid, strip and budget return the same result.  *)
C7_FirstCombinationDeterministic ==
    /\ solution # None => tested = solution[1].tested
    /\ (Returned /\ result # None /\ WellSizedGrid) =>
          LET valid == ValidCombinations
          IN  /\ valid # {}
              /\ result[1].strip = StripOf(FirstOf(valid))
              /\ result[1].grid =
                    findGridAssignment(ComboPairs(AscendingSeq(FirstOf(valid))),
                                       EmptyGrid)[1]
    /\ (Returned /\ first # None /\ first[1].maxAttempts = maxAttempts) =>
          result = first[1].result

\* the second of two calls with equal budgets has returned a Solution that
\* was not the first combination evaluated
C7_Witness ==
    /\ Returned /\ first # None /\ first[1].maxAttempts = maxAttempts
    /\ result # None /\ tested > 1

(* C8: every Use recorded by findConsistentPairs under a pair (lo, hi)     *)
(* has grid[mult.index] = lo*hi, grid[add.index] = lo+hi and distinct      *)
(* indices.                                                                *)
C8_UsesAreConsistent ==
    \A k \in 1..Len(allPairs) : \A u \in 1..Len(allPairs[k].uses) :
        UseIsConsistent(gridNumbers, allPairs[k].pair, allPairs[k].uses[u])

\* the extractor has recorded a pair of equal numbers (sum and product in
\* two cells holding the same value)
C8_Witness ==
    /\ pc = "extracted"
    /\ \E k \in 1..Len(allPairs) : allPairs[k].pair[1] = allPairs[k].pair[2]

(* C9: findConsistentPairs is complete and duplicate-free: for all cells   *)
(* i # j and positive a <= b with a*b = grid[i] and a+b = grid[j] the list *)
(* holds exactly one candidate (a, b), and it lists the Use (add j,        *)
(* mult i) exactly once.                                                   *)
C9_ExtractionComplete ==
    pc = "extracted" =>
        \A i \in 0..(Len(gridNumbers) - 1) : \A j \in 0..(Len(gridNumbers) - 1) :
            \A a \in 1..gridNumbers[j + 1] :
                LET b == gridNumbers[j + 1] - a
                IN  (i # j /\ a <= b /\ a * b = gridNumbers[i + 1]) =>
                       /\ Cardinality({k \in 1..Len(allPairs) :
                                          allPairs[k].pair = <<a, b>>}) = 1
                       /\ \A k \in 1..Len(allPairs) :
                             allPairs[k].pair = <<a, b>> =>
                                Cardinality({u \in 1..Len(allPairs[k].uses) :
                                    /\ allPairs[k].uses[u].add.index = j
                                    /\ allPairs[k].uses[u].mult.index = i}) = 1

\* a grid holding 12 and 7 in distinct cells has yielded the candidate
\* (3, 4) with a Use linking the two cells
C9_Witness ==
    /\ pc = "extracted"
    /\ \E i \in 1..Len(gridNumbers) : \E j \in 1..Len(gridNumbers) :
          /\ gridNumbers[i] = 12 /\ gridNumbers[j] = 7
          /\ \E k \in 1..Len(allPairs) :
                /\ allPairs[k].pair = <<3, 4>>
                /\ \E u \in 1..Len(allPairs[k].uses) :
                      /\ allPairs[k].uses[u].mult.index = i - 1
                      /\ allPairs[k].uses[u].add.index = j - 1

\* the grid or the strip is not of length 16, or the grid holds a value <= 0
MalformedInput ==
    \/ Len(gridNumbers) # GridCells
    \/ Len(stripValues) # GridCells
    \/ \E k \in 1..Len(gridNumbers) : gridNumbers[k] <= 0

(* C10 (as claimed): solve called with a grid or strip whose length is not *)
(* 16, or with a grid value <= 0, reports an error: it does not return     *)
(* to its caller with a Solution or with the ordinary not-found null.      *)
C10_MalformedInputReported == ~(Returned /\ MalformedInput)

(* C11: for a grid from which fewer than 8 candidates are extracted, solve *)
(* returns the not-found result of a search that ran to its end (it was    *)
(* not cut by the budget and met no complete combination), whatever the    *)
(* strip and the budget; never a Solution.                                 *)
C11_FewCandidatesExhausted ==
    (Returned /\ Len(allPairs) < ComboSize) =>
        (result = None /\ ~aborted /\ tested = 0)

\* solve has returned for a 16-cell grid with some, but fewer than 8,
\* candidates, several of them usable together
C11_Witness ==
    /\ Returned /\ WellSizedGrid
    /\ Len(allPairs) > 1 /\ Len(allPairs) < ComboSize

\* the numbers n occurs how many times in the sequence s
Count(s, n) == Cardinality({k \in 1..Len(s) : s[k] = n})

(* C13 (as claimed): every puzzle generate returns is built from exactly 8 *)
(* pairwise-distinct pairs (A, B) with A # B, and its grid holds exactly   *)
(* 16 values: the sum and the product of each of the 8 pairs.              *)
C13_EightDistinctPairs ==
    puzzle # None =>
        LET made == puzzle[1].solution.pairs
            grid == puzzle[1].grid
        IN  /\ Len(made) = ComboSize
            /\ \A k \in 1..Len(made) : made[k][1] # made[k][2]
            /\ \A k \in 1..Len(made) : \A l \in 1..Len(made) :
                  k # l => made[k] # made[l]
            /\ Len(grid) = 2 * ComboSize
            /\ \A n \in {grid[k] : k \in 1..Len(grid)} :
                  Count(grid, n) =
                      Cardinality({k \in 1..Len(made) : made[k][1] + made[k][2] = n})
                      + Cardinality({k \in 1..Len(made) : made[k][1] * made[k][2] = n})

(* C12 (as claimed): for every puzzle generate can produce, solve called   *)
(* on its grid and strip with the default maxAttempts returns a Solution,  *)
(* not null.                                                               *)
C12_GeneratedPuzzleSolved ==
    (Returned /\ puzzle # None /\ maxAttempts = DefaultMaxAttempts) => result # None

\* generate returned a puzzle made of 8 pairs
EightPairsGenerated == puzzle # None /\ Len(puzzle[1].solution.pairs) = ComboSize

\* the strip the user sees after filling it in: known values and inputs
FilledStrip ==
    [k \in 1..Len(puzzle[1].strip) |->
        IF puzzle[1].strip[k] # None THEN puzzle[1].strip[k]
        ELSE userInputs[1].stripInputs[k]]

\* cell k (1-based) of the grid holds two numbers and an operator whose result
\* is the cell's value
CellIsRight(k) ==
    /\ k <= Len(userInputs[1].gridInputs)
    /\ LET e == userInputs[1].gridInputs[k]
       IN  /\ e.num1 # None /\ e.num2 # None
           /\ \/ e.op = "+" /\ e.num1[1] + e.num2[1] = puzzle[1].grid[k]
              \/ e.op = "x" /\ e.num1[1] * e.num2[1] = puzzle[1].grid[k]

\* the grid cells on which the user entered the unordered pair p with operator op
CellsOf(p, op) ==
    {k \in 1..Len(puzzle[1].grid) :
        /\ k <= Len(userInputs[1].gridInputs)
        /\ userInputs[1].gridInputs[k].op = op
        /\ userInputs[1].gridInputs[k].num1 # None
        /\ userInputs[1].gridInputs[k].num2 # None
        /\ {userInputs[1].gridInputs[k].num1[1], userInputs[1].gridInputs[k].num2[1]} = p}

(* C14: validate returns success = true only if all 16 cells are           *)
(* arithmetically correct, every pair is entered on as many addition cells *)
(* as multiplication cells (8 and 8), and the 16 numbers of the 8 pairs    *)
(* are, counted with multiplicity, the numbers of the filled-in strip.     *)
C14_SuccessOnlyIfRulesMet ==
    (validation # None /\ validation[1].success) =>
        LET numbers == 1..(MaxOperand + MaxNum)
            unordered == {{a, b} : a \in numbers, b \in numbers}
            addCells == UNION {CellsOf(p, "+") : p \in unordered}
        IN  /\ Len(puzzle[1].grid) = GridCells
            /\ \A k \in 1..GridCells : CellIsRight(k)
            /\ \A p \in unordered :
                  Cardinality(CellsOf(p, "+")) = Cardinality(CellsOf(p, "x"))
            /\ Cardinality(addCells) = ComboSize
            /\ \A k \in 1..Len(FilledStrip) : FilledStrip[k] # None
            /\ \A n \in numbers :
                  Count(FilledStrip, Some(n)) =
                      Cardinality({k \in addCells : userInputs[1].gridInputs[k].num1 = Some(n)})
                      + Cardinality({k \in addCells : userInputs[1].gridInputs[k].num2 = Some(n)})

\* validate accepted inputs for a strip with hidden slots in which some cell
\* has the larger number first
C14_Witness ==
    /\ validation # None /\ validation[1].success
    /\ \E k \in 1..Len(puzzle[1].strip) : puzzle[1].strip[k] = None
    /\ \E k \in 1..Len(userInputs[1].gridInputs) :
          /\ userInputs[1].gridInputs[k].num1 # None
          /\ userInputs[1].gridInputs[k].num2 # None
          /\ userInputs[1].gridInputs[k].num1[1] > userInputs[1].gridInputs[k].num2[1]

\* every cell is right and every pair is matched, yet validate refused: the
\* pairs' numbers are not the strip's
AllMatchedButRefused ==
    /\ validation # None /\ ~validation[1].success
    /\ \A k \in 1..GridCells : CellIsRight(k)
    /\ \A h \in 1..Len(validation[1].stripFeedback) : validation[1].stripFeedback[h].correct
    /\ Len(userInputs[1].gridInputs) = GridCells

\* every cell of the grid holds a positive integer
PositiveGrid == \A k \in 1..Len(gridNumbers) : gridNumbers[k] > 0

(* C15 (as claimed): every candidate pair findConsistentPairs returns for  *)
(* a grid of positive integers consists of two distinct positive integers  *)
(* lo < hi.                                                                *)
C15_PairsDistinct ==
    (pc = "extracted" /\ PositiveGrid) =>
        \A k \in 1..Len(allPairs) :
            /\ allPairs[k].pair[1] >= 1
            /\ allPairs[k].pair[1] < allPairs[k].pair[2]

(* C15 (amended): every candidate pair findConsistentPairs returns for a   *)
(* grid of positive integers consists of two positive integers lo <= hi;   *)
(* lo = hi occurs, for a square lo * lo and the sum 2 * lo held by two     *)
(* distinct cells.                                                         *)
C15_PairsOrdered ==
    (pc = "extracted" /\ PositiveGrid) =>
        \A k \in 1..Len(allPairs) :
            /\ allPairs[k].pair[1] >= 1
            /\ allPairs[k].pair[1] <= allPairs[k].pair[2]
            /\ allPairs[k].pair[1] = allPairs[k].pair[2] =>
                  \E i \in 1..Len(gridNumbers) : \E j \in 1..Len(gridNumbers) :
                      /\ i # j
                      /\ gridNumbers[i] = allPairs[k].pair[1] * allPairs[k].pair[1]
                      /\ gridNumbers[j] = 2 * allPairs[k].pair[1]

\* a grid of positive integers has yielded both a pair of equal numbers and
\* a pair of distinct numbers
C15_Witness ==
    /\ pc = "extracted" /\ PositiveGrid
    /\ \E k \in 1..Len(allPairs) : allPairs[k].pair[1] = allPairs[k].pair[2]
    /\ \E k \in 1..Len(allPairs) : allPairs[k].pair[1] < allPairs[k].pair[2]

\* a call of backtrack is about to start its for loop
AtLoopStart == InLoop /\ ~Top.entered

\* the candidates that loop will pass over: none of their uses has both
\* cells unclaimed
Skipped ==
    {k \in Top.i..(Len(allPairs) - 1) :
        availableUse(allPairs[k + 1].uses, Top.usedIndices) = 0}

\* the candidates of the partial combination
Chosen == {currentCombo[k] : k \in 1..Len(currentCombo)}

RECURSIVE CanLay(_, _)
\* the candidates in S can be laid on cells outside `covered`, one use each,
\* no cell twice, for some choice of their uses
CanLay(S, covered) ==
    IF S = {} THEN TRUE
    ELSE LET c == CHOOSE x \in S : \A y \in S : x <= y
         IN  \E u \in 1..Len(allPairs[c + 1].uses) :
                LET use == allPairs[c + 1].uses[u]
                IN  /\ use.add.index # use.mult.index
                    /\ {use.add.index, use.mult.index} \cap covered = {}
                    /\ CanLay(S \ {c}, covered \cup {use.add.index, use.mult.index})

(* C16: the pruning never skips a candidate that could still be part of a  *)
(* solution: when backtrack passes over a candidate, the partial           *)
(* combination together with that candidate cannot be laid on the grid     *)
(* without using a cell twice, whichever use is taken for each pair; so no *)
(* completion to 8 pairs admits a grid assignment under other uses.        *)
C16_PruningSkipsNothingUsable ==
    AtLoopStart => \A k \in Skipped : ~CanLay(Chosen \cup {k}, {})

\* with a partial combination laid on first available uses, the loop passes
\* over a candidate that has several uses
C16_Witness ==
    /\ AtLoopStart /\ Chosen # {} /\ WellSizedGrid
    /\ \E k \in Skipped : Len(allPairs[k + 1].uses) > 1

\* backtrack is about to evaluate a complete combination
AtEvaluation ==
    /\ pc = "search" /\ stack # <<>> /\ ~Top.entered
    /\ ~ReturnsAtOnce(solution, tested, maxAttempts)
    /\ ComboComplete(currentCombo)

(* C18: for a 16-cell grid every combination that reaches depth 8 admits a *)
(* full grid assignment: findGridAssignment does not return null inside    *)
(* the search, and a combination is rejected at depth 8 only because its   *)
(* strip does not match the known values.                                  *)
C18_CompleteCombinationsAssignable ==
    (AtEvaluation /\ WellSizedGrid) =>
        /\ findGridAssignment(ComboPairs(currentCombo), EmptyGrid) # None
        /\ Evaluate(currentCombo, tested + 1) = None =>
              ~matchesKnownValues(buildStripFromPairs(ComboPairs(currentCombo)),
                                  stripValues)

\* a complete combination of a 16-cell grid, one of its pairs with several
\* uses, is about to be rejected
C18_Witness ==
    /\ AtEvaluation /\ WellSizedGrid
    /\ Evaluate(currentCombo, tested + 1) = None
    /\ \E k \in 1..Len(currentCombo) : Len(allPairs[currentCombo[k] + 1].uses) > 1

\* the use of candidate c (0-based) that the grid assignment took: both its
\* cells hold the pair of c, with the use's operators
TakenUses(grid, c) ==
    {u \in 1..Len(allPairs[c + 1].uses) :
        LET use == allPairs[c + 1].uses[u]
            entry(op) == Some([num1 |-> allPairs[c + 1].pair[1], op |-> op,
                               num2 |-> allPairs[c + 1].pair[2]])
        IN  /\ use.add.index # use.mult.index
            /\ {use.add.index, use.mult.index} \subseteq 0..(Len(grid) - 1)
            /\ grid[use.add.index + 1] = entry("+")
            /\ grid[use.mult.index + 1] = entry("x")}

(* C17: for 8 candidates of a 16-cell grid, findGridAssignment returns an  *)
(* assignment exactly when one use per pair can be chosen with 16 distinct *)
(* cells (all of 0..15); the assignment returned is such a choice: every   *)
(* cell is filled and every pair lies on the two cells of one of its uses. *)
C17_AssignmentIffCover ==
    pc = "assigned" =>
        /\ (assigned # None) <=> CanLay(Chosen, {})
        /\ assigned # None =>
              /\ Len(assigned[1]) = GridCells
              /\ \A k \in 1..GridCells : assigned[1][k] # None
              /\ \A c \in Chosen : TakenUses(assigned[1], c) # {}

\* findGridAssignment returned an assignment in which some pair lies on a
\* use other than its first
C17_Witness ==
    /\ pc = "assigned" /\ assigned # None
    /\ \E c \in Chosen : 1 \notin TakenUses(assigned[1], c)

\* findGridAssignment returned null for 8 candidates
NullAssignmentReturned == pc = "assigned" /\ assigned = None

\* the pair written in cell k (1-based) of a grid assignment
PairAt(grid, k) == <<grid[k][1].num1, grid[k][1].num2>>

(* C19: in every Solution the grid assignment is arithmetically valid and  *)
(* consistent with the strip: each '+' cell k holds a pair with num1 +     *)
(* num2 = gridNumbers[k], each multiplication cell m a pair with num1 *    *)
(* num2 = gridNumbers[m]; every pair on the grid lies on exactly one '+'   *)
(* cell and exactly one multiplication cell; and the numbers of the 8      *)
(* pairs are, counted with multiplicity, the numbers of the strip.         *)
C19_AssignmentValid ==
    (Returned /\ result # None) =>
        LET grid == result[1].grid
            strip == result[1].strip
            plus == CellsWith(grid, "+")
            times == CellsWith(grid, "x")
        IN  /\ Cardinality(plus) = ComboSize
            /\ \A k \in plus :
                  /\ grid[k][1].num1 + grid[k][1].num2 = gridNumbers[k]
                  /\ Cardinality({m \in plus : PairAt(grid, m) = PairAt(grid, k)}) = 1
                  /\ Cardinality({m \in times : PairAt(grid, m) = PairAt(grid, k)}) = 1
            /\ \A m \in times :
                  /\ grid[m][1].num1 * grid[m][1].num2 = gridNumbers[m]
                  /\ Cardinality({k \in plus : PairAt(grid, k) = PairAt(grid, m)}) = 1
            /\ \A n \in {strip[k] : k \in 1..Len(strip)}
                          \cup {grid[k][1].num1 : k \in plus}
                          \cup {grid[k][1].num2 : k \in plus} :
                  Count(strip, n) =
                      Cardinality({k \in plus : grid[k][1].num1 = n})
                      + Cardinality({k \in plus : grid[k][1].num2 = n})

\* a Solution in which a '+' cell and a multiplication cell hold the same
\* grid value
C19_Witness ==
    /\ Returned /\ result # None
    /\ \E k \in CellsWith(result[1].grid, "+") : \E m \in CellsWith(result[1].grid, "x") :
          gridNumbers[k] = gridNumbers[m]

(* C20 (as claimed): when findOptimalCombination returns a solution object *)
(* its pairs field still holds exactly the 8 candidate pairs whose numbers *)
(* form its strip field and whose uses form its grid field.                *)
C20_SolutionPairsKept ==
    (pc = "search" /\ stack = <<>> /\ solution # None) =>
        /\ Len(SolutionPairs) = ComboSize
        /\ buildStripFromPairs(SolutionPairs) = solution[1].strip
        /\ findGridAssignment(SolutionPairs, EmptyGrid) = Some(solution[1].grid)

====
